---- MODULE Spec2Model ----
(***************************************************************************)
(* Browser-History-Parser-GUI (src/main.py): the artifact decoding core    *)
(* (detect_kind, query_rows, the three epoch converters) and the Flask     *)
(* shell around it (upload, export_csv, FILE_INDEX).                       *)
(*                                                                         *)
(* Numbers.  A stored integer N (an SQLite INTEGER, up to 64 bits) is kept *)
(* as the triple (d, s, u) with N = (d*86400 + s)*10^6 + u, 0 <= s < 86400 *)
(* and 0 <= u < 10^6, d of either sign.  This is the normal form Python's  *)
(* timedelta(microseconds=N) has (days, seconds, microseconds), and it     *)
(* keeps every intermediate value inside 32 bits.                          *)
(***************************************************************************)
EXTENDS Integers, Sequences, FiniteSets, TLC

VARIABLES
    \* ---- the core, driven over its input domain (CoreSpec) ----
    c_pc,        \* position of the caller / of the query_rows generator
    c_file,      \* the database file behind db_path
    c_kind,      \* the family handed to query_rows
    c_type,      \* table_type
    c_limit,     \* limit
    c_consumer,  \* "display" (list comprehension of upload) or "csv" (generate)
    c_src,       \* where c_kind comes from: "detect_kind" or "caller"
    c_out,       \* records the consumer has received from this extraction
    c_err,       \* the exception the call raised, or NoError
    c_chunks,    \* chunks generate() has produced (header included)
    \* ---- the converters, driven over integer inputs (ConvSpec) ----
    v_pc, v_in, v_sql, v_py,
    \* ---- the shell (Spec) ----
    disk,        \* token -> file saved under UPLOAD_DIR (tokens 1..issued)
    FILE_INDEX,  \* token -> meta, or NoMeta
    issued,      \* number of tokens issued so far
    detects,     \* token -> number of detect_kind calls on that file
    lastcall,    \* the latest query_rows call: its arguments and its caller
    resp,        \* status of the last response of upload
    stream,      \* the CSV response being streamed, or NoStream
    unclosed     \* is a connection still open although its call has ended?

coreVars  == <<c_pc, c_file, c_kind, c_src, c_type, c_limit, c_consumer, c_out,
               c_err, c_chunks>>
convVars  == <<v_pc, v_in, v_sql, v_py>>
shellVars == <<disk, FILE_INDEX, issued, detects, lastcall, resp, stream, unclosed>>
vars      == <<coreVars, convVars, shellVars>>

----------------------------------------------------------------------------
(* Bounds of the model                                                     *)
MaxRows    == 3      \* rows in the table a query reads
MaxUploads == 2      \* files uploaded in one run of the shell

----------------------------------------------------------------------------
(* Calendar and numbers                                                    *)
SecPerDay == 86400
Million   == 1000000

\* days of the proleptic Gregorian calendar before 1 January of year y
DaysBeforeYear(y) ==
    (y - 1) * 365 + ((y - 1) \div 4) - ((y - 1) \div 100) + ((y - 1) \div 400)

\* date.toordinal() of y-01-01
Ordinal(y) == DaysBeforeYear(y) + 1

EPOCH_CHROMIUM == Ordinal(1601)
EPOCH_UNIX     == Ordinal(1970)
EPOCH_COCOA    == Ordinal(2001)

\* datetime.min / datetime.max as ordinals: 0001-01-01 .. 9999-12-31
MinOrdinal == 1
MaxOrdinal == DaysBeforeYear(10000)

\* normal form of (d days, s seconds, u microseconds)
Norm(d, s, u) ==
    LET s1 == s + (u \div Million)
    IN  [d |-> d + (s1 \div SecPerDay), s |-> s1 % SecPerDay, u |-> u % Million]

\* lexicographic order on normal forms
TLess(a, b) ==
    \/ a.d < b.d
    \/ a.d = b.d /\ a.s < b.s
    \/ a.d = b.d /\ a.s = b.s /\ a.u < b.u

\* (d,s,u) / 1000, rounded down to the representation's last digit
DivThousand(x) ==
    LET rd == x.d % 1000
        t  == rd * SecPerDay + x.s
    IN  [d |-> x.d \div 1000, s |-> t \div 1000,
         u |-> ((t % 1000) * Million + x.u) \div 1000]

----------------------------------------------------------------------------
(* Values a timestamp column can hold (SQLite storage classes)             *)
Null      == [t |-> "null", d |-> 0, s |-> 0, u |-> 0]
Text      == [t |-> "text", d |-> 0, s |-> 0, u |-> 0]   \* non-numeric TEXT
IntV(d, s, u) == [t |-> "int", d |-> d, s |-> s, u |-> u]

\* strings the converters return
Empty == [t |-> "empty", fmt |-> "", ord |-> 0, s |-> 0, u |-> 0]      \* ""
PyNone == [t |-> "none", fmt |-> "", ord |-> 0, s |-> 0, u |-> 0]      \* None
\* datetime.isoformat(): 'YYYY-MM-DDTHH:MM:SS[.ffffff]+00:00'
Iso(ord, s, u) == [t |-> "str", fmt |-> "iso", ord |-> ord, s |-> s, u |-> u]
\* SQLite datetime(): 'YYYY-MM-DD HH:MM:SS'
SqlStr(ord, s) == [t |-> "str", fmt |-> "sql", ord |-> ord, s |-> s, u |-> 0]

\* EPOCH + timedelta, then isoformat(); OverflowError is caught -> ""
AddToEpoch(epoch, td) ==
    IF epoch + td.d < MinOrdinal \/ epoch + td.d > MaxOrdinal
    THEN Empty
    ELSE Iso(epoch + td.d, td.s, td.u)

chrome_to_utc(raw) ==
    IF raw.t # "int" THEN Empty      \* int(None), int('abc') raise; caught
    ELSE AddToEpoch(EPOCH_CHROMIUM, Norm(raw.d, raw.s, raw.u))

firefox_to_utc(raw) ==
    IF raw.t # "int" THEN Empty
    ELSE AddToEpoch(EPOCH_UNIX, Norm(raw.d, raw.s, raw.u))

\* thresholds of safari_to_utc in the (d,s,u) form: 1e14, 1e11, 1e10
T1e14 == [d |-> 1157, s |-> 35200, u |-> 0]
T1e11 == [d |-> 1,    s |-> 13600, u |-> 0]
T1e10 == [d |-> 0,    s |-> 10000, u |-> 0]

\* val seconds as a timedelta, for val <= 1e10: N*10^6 microseconds, with
\* 10^6 s = 11 d + 49600 s.  Below -86400e6 seconds every date is out of range.
SecondsAsDelta(x) ==
    LET a == x.d * SecPerDay + x.s
        p == Norm(0, a * 496, 0)
        q == Norm(p.d * 100, p.s * 100, 0)          \* a * 49600 seconds
    IN  Norm(a * 11 + q.d, q.s + x.u, 0)

safari_to_utc(raw) ==
    IF raw.t # "int" THEN Empty      \* float(None), float('abc') raise; caught
    ELSE LET x == Norm(raw.d, raw.s, raw.u)
         IN  IF TLess(T1e14, x) THEN
                 AddToEpoch(EPOCH_COCOA, DivThousand(x))       \* val/1e9
             ELSE IF TLess(T1e11, x) THEN
                 AddToEpoch(EPOCH_COCOA, x)                    \* val/1e6
             ELSE IF TLess(T1e10, x) THEN
                 AddToEpoch(EPOCH_COCOA, Norm(x.d * 1000, x.s * 1000, x.u * 1000))
             ELSE IF x.d < -1 THEN Empty                       \* OverflowError
             ELSE AddToEpoch(EPOCH_COCOA, SecondsAsDelta(x))   \* val

----------------------------------------------------------------------------
(* The conversion the downloads query does in SQL (main.py:103-106):       *)
(*   datetime((col / 1000000) - 11644473600, 'unixepoch')                  *)

\* 11644473600 seconds = 134774 days of 86400 seconds
SqlOffsetDays == 134774

\* col / 1000000 on a 64-bit INTEGER: C division, truncating toward zero
SqlDivMillion(x) ==
    IF x.d < 0 /\ x.u # 0 THEN Norm(x.d, x.s + 1, 0)
    ELSE [d |-> x.d, s |-> x.s, u |-> 0]

\* datetime(.., 'unixepoch') is NULL outside Julian day 0 .. 9999-12-31;
\* the Unix epoch is Julian day 2440587.5
SqlMinOrdinal == EPOCH_UNIX - 2440588

SqlValid(ord, s) ==
    /\ ord <= MaxOrdinal
    /\ ord > SqlMinOrdinal \/ (ord = SqlMinOrdinal /\ s >= SecPerDay \div 2)

sql_chrome_utc(raw) ==
    IF raw.t = "null" THEN PyNone            \* NULL / 1000000 is NULL
    ELSE LET q == IF raw.t = "text" THEN [d |-> 0, s |-> 0, u |-> 0]  \* 'abc' is 0
                  ELSE SqlDivMillion(Norm(raw.d, raw.s, raw.u))
             ord == EPOCH_UNIX + (q.d - SqlOffsetDays)
         IN  IF SqlValid(ord, q.s) THEN SqlStr(ord, q.s) ELSE PyNone

----------------------------------------------------------------------------
(* Database files                                                          *)

\* table names as stored in sqlite_master; SQLite names are case-insensitive,
\* so a file holds at most one spelling of a name
TableNames == {"urls", "URLS", "visits", "moz_places", "moz_historyvisits",
               "history_items", "history_visits", "downloads", "Downloads",
               "foo", "bar"}

\* str.lower() on those names
Lower(n) == CASE n = "URLS" -> "urls"
              [] n = "Downloads" -> "downloads"
              [] OTHER -> n

TableSets == {T \in SUBSET TableNames :
                 \A a, b \in T : Lower(a) = Lower(b) => a = b}

\* raw timestamps the rows of the model carry: NULL, non-numeric text, -1,
\* 0, a second boundary before 1601, 700000000 (Safari seconds, 2023),
\* 1650000000000000 (Firefox, 2022), 13300000000000000 (Chromium, 2022),
\* 2^63 - 1
RawTimes == <<
    IntV(153935, 16000, 0),
    Null,
    IntV(-1, 86399, 999999),
    Text,
    IntV(0, 700, 0),
    IntV(106751991, 14454, 775807),
    IntV(19097, 19200, 0),
    IntV(0, 0, 0),
    IntV(-1, 86399, 0) >>

NRaw == Len(RawTimes)

RawAt(k) == RawTimes[((k - 1) % NRaw) + 1]

\* n rows; row i has id i, a NULL title when i is even, and three timestamp
\* columns taken from RawTimes starting at offset k
Rows(n, k) ==
    [i \in 1..n |-> [id |-> i,
                     title |-> IF i % 2 = 0 THEN "null" ELSE "title",
                     t1 |-> RawAt(k + i - 1),
                     t2 |-> RawAt(k + i),
                     t3 |-> RawAt(k + i + 1)]]

RowLists == {Rows(n, k) : n \in 0..MaxRows, k \in 1..NRaw}

\* readable: the file is an SQLite database; tables: the names in
\* sqlite_master; columns: the tables have the columns the queries name;
\* rows: the rows of the table (or join) a query of this file reads
File(rd, T, cols, rows) ==
    [readable |-> rd, tables |-> T, columns |-> cols, rows |-> rows]

ChromiumTables == {"urls", "visits", "downloads"}
FirefoxTables  == {"moz_places", "moz_historyvisits"}
SafariTables   == {"history_items", "history_visits"}

CoreFiles ==
    {File(TRUE, T, TRUE, Rows(1, 1)) : T \in TableSets}
    \cup {File(TRUE, T, TRUE, r) :
            T \in {ChromiumTables, FirefoxTables, SafariTables}, r \in RowLists}
    \cup {File(rd, T, cols, Rows(2, 1)) :
            rd \in BOOLEAN, cols \in BOOLEAN,
            T \in {ChromiumTables, FirefoxTables, SafariTables, {"downloads"}, {}}}

----------------------------------------------------------------------------
(* detect_kind (main.py:42-52)                                             *)
Families == {"chromium", "firefox", "safari", "unknown"}

DatabaseError == "DatabaseError: file is not a database"
NoSuchTable   == "OperationalError: no such table"
NoSuchColumn  == "OperationalError: no such column"

Names(f) == {Lower(t) : t \in f.tables}

\* detect_kind with the downloads test moved to the front
detect_kind_downloads_first(f) ==
    IF ~f.readable THEN DatabaseError
    ELSE LET names == Names(f)
         IN  IF "downloads" \in names THEN "chromium"
             ELSE IF {"urls", "visits"} \subseteq names THEN "chromium"
             ELSE IF {"moz_places", "moz_historyvisits"} \subseteq names THEN "firefox"
             ELSE IF {"history_items", "history_visits"} \subseteq names THEN "safari"
             ELSE "unknown"

detect_kind(f) ==
    IF ~f.readable THEN DatabaseError                 \* cur.execute raises
    ELSE LET names == Names(f)
         IN  IF {"urls", "visits"} \subseteq names THEN "chromium"
             ELSE IF {"moz_places", "moz_historyvisits"} \subseteq names THEN "firefox"
             ELSE IF {"history_items", "history_visits"} \subseteq names THEN "safari"
             ELSE IF "downloads" \in names THEN "chromium"
             ELSE "unknown"

----------------------------------------------------------------------------
(* query_rows (main.py:54-119)                                             *)
NoError == "none"

TableTypes == {"urls", "downloads", "bookmarks"}   \* the form's "table" field

\* the tables the statement of (kind, table_type) names in FROM / JOIN
QueryTables(kind, table_type) ==
    IF table_type = "urls" THEN
        IF kind = "chromium" THEN {"visits", "urls"}
        ELSE IF kind = "firefox" THEN {"moz_historyvisits", "moz_places"}
        ELSE IF kind = "safari" THEN {"history_visits", "history_items"}
        ELSE {"urls"}
    ELSE IF table_type = "downloads" /\ kind = "chromium" THEN {"downloads"}
    ELSE {}

\* a downloads branch that does not test the family
RunsQuery_any_family(kind, table_type) ==
    table_type = "urls" \/ table_type = "downloads"

\* does query_rows reach a cur.execute for (kind, table_type)?
RunsQuery(kind, table_type) ==
    table_type = "urls" \/ (table_type = "downloads" /\ kind = "chromium")

\* SQLite's ORDER BY across storage classes: NULL < numbers < TEXT
Rank(raw) == CASE raw.t = "null" -> 0 [] raw.t = "int" -> 1 [] OTHER -> 2

KeyLess(a, b) ==
    \/ Rank(a) < Rank(b)
    \/ /\ Rank(a) = Rank(b)
       /\ a.t = "int"
       /\ TLess(Norm(a.d, a.s, a.u), Norm(b.d, b.s, b.u))

Remove(seq, i) == [j \in 1..(Len(seq) - 1) |-> IF j < i THEN seq[j] ELSE seq[j + 1]]

\* ORDER BY <time column> DESC
RECURSIVE OrderDesc(_)
OrderDesc(rows) ==
    IF rows = <<>> THEN <<>>
    ELSE LET i == CHOOSE i \in 1..Len(rows) :
                     /\ \A j \in 1..Len(rows) : ~KeyLess(rows[i].t1, rows[j].t1)
                     /\ \A j \in 1..(i - 1) : KeyLess(rows[j].t1, rows[i].t1)
         IN  <<rows[i]>> \o OrderDesc(Remove(rows, i))

\* a statement without its LIMIT clause
SqlLimit_none(rows, limit) == rows

\* LIMIT n: a negative n is no limit
SqlLimit(rows, limit) ==
    IF limit < 0 \/ limit >= Len(rows) THEN rows ELSE SubSeq(rows, 1, limit)

\* an execute that answers a missing table with no rows instead of raising
Execute_lenient(f, kind, table_type, limit) ==
    IF ~f.readable THEN [err |-> DatabaseError, rows |-> <<>>]
    ELSE IF ~(QueryTables(kind, table_type) \subseteq Names(f))
         THEN [err |-> NoError, rows |-> <<>>]
    ELSE IF ~f.columns THEN [err |-> NoSuchColumn, rows |-> <<>>]
    ELSE [err |-> NoError, rows |-> SqlLimit(OrderDesc(f.rows), limit)]

\* cur.execute(sql); cur.fetchall()
Execute(f, kind, table_type, limit) ==
    IF ~f.readable THEN [err |-> DatabaseError, rows |-> <<>>]
    ELSE IF ~(QueryTables(kind, table_type) \subseteq Names(f))
         THEN [err |-> NoSuchTable, rows |-> <<>>]
    ELSE IF ~f.columns THEN [err |-> NoSuchColumn, rows |-> <<>>]
    ELSE [err |-> NoError, rows |-> SqlLimit(OrderDesc(f.rows), limit)]

\* main.py:94-96
visited_utc(kind, raw) ==
    IF kind = "firefox" THEN firefox_to_utc(raw)
    ELSE IF kind = "safari" THEN safari_to_utc(raw)
    ELSE chrome_to_utc(raw)

\* main.py:97
VisitRecord(kind, r) ==
    [id |-> r.id,
     title |-> IF r.title = "null" THEN "" ELSE r.title,
     utc |-> visited_utc(kind, r.t1)]

\* main.py:113-119 (the fields that pass through unchanged are left out)
DownloadRecord(r) ==
    [id |-> r.id,
     start_time_utc |-> sql_chrome_utc(r.t1),
     end_time_utc |-> sql_chrome_utc(r.t2),
     last_access_time_utc |-> sql_chrome_utc(r.t3)]

\* what one call yields when consumed to the end: the exception of
\* cur.execute (raised at the first next(), before any yield) or the records
query_rows(f, kind, table_type, limit) ==
    IF ~RunsQuery(kind, table_type) THEN [err |-> NoError, recs |-> <<>>]
    ELSE LET x == Execute(f, kind, table_type, limit)
         IN  [err |-> x.err,
              recs |-> [i \in 1..Len(x.rows) |->
                          IF table_type = "urls" THEN VisitRecord(kind, x.rows[i])
                          ELSE DownloadRecord(x.rows[i])]]

----------------------------------------------------------------------------
(* The shell's inputs and state                                            *)
NoFile   == File(FALSE, {}, FALSE, <<>>)       \* placeholder: nothing saved yet
NoMeta   == [path |-> 0, kind |-> "none", table_type |-> "none"]
NoStream == [token |-> 0, path |-> 0, kind |-> "none", table_type |-> "none",
             pc |-> "none", sent |-> 0, chunks |-> 0]
NoResp   == "none"
NoCall   == [by |-> "none", token |-> 0, path |-> 0, kind |-> "none",
             table_type |-> "none", limit |-> 0]
Absent   == "absent"                \* a form field the request does not carry
Tokens   == 1..MaxUploads

ShellIdle ==
    /\ disk = [t \in Tokens |-> NoFile]
    /\ FILE_INDEX = [t \in Tokens |-> NoMeta]
    /\ issued = 0
    /\ detects = [t \in Tokens |-> 0]
    /\ lastcall = NoCall
    /\ resp = NoResp
    /\ stream = NoStream
    /\ unclosed = FALSE

----------------------------------------------------------------------------
(* ConvSpec: the two Chromium conversions applied to the same integer      *)
ConvInputs ==
    {IntV(d, s, u) : d \in {-2, -1, 0, 1, 153935},
                     s \in {0, 1, 86399}, u \in {0, 1, 999999}}

ConvIdle ==
    /\ v_pc = {} /\ v_in = Null /\ v_sql = PyNone /\ v_py = PyNone

ConvInit ==
    /\ v_pc = {} /\ v_in \in ConvInputs /\ v_sql = PyNone /\ v_py = PyNone

ConvSql ==
    /\ "sql" \notin v_pc
    /\ v_sql' = sql_chrome_utc(v_in)
    /\ v_pc' = v_pc \cup {"sql"}
    /\ UNCHANGED <<v_in, v_py, coreVars, shellVars>>

ConvPy ==
    /\ "py" \notin v_pc
    /\ v_py' = chrome_to_utc(v_in)
    /\ v_pc' = v_pc \cup {"py"}
    /\ UNCHANGED <<v_in, v_sql, coreVars, shellVars>>

----------------------------------------------------------------------------
(* CoreSpec: detect_kind and query_rows driven over their inputs           *)
Limits == {1, 2, MaxRows, 5000, 100000}
ExportLimit == 1000000                         \* main.py:319

CoreInputs ==
    {[file |-> f, type |-> ty, limit |-> l, consumer |-> "display"] :
        f \in CoreFiles, ty \in {"urls", "downloads"}, l \in {5000}}
    \cup {[file |-> f, type |-> ty, limit |-> l, consumer |-> "display"] :
        f \in {g \in CoreFiles : g.rows # Rows(1, 1)}, ty \in TableTypes, l \in Limits}
    \cup {[file |-> f, type |-> ty, limit |-> ExportLimit, consumer |-> "csv"] :
        f \in {g \in CoreFiles : g.rows # Rows(1, 1)}, ty \in TableTypes}

CoreIdle ==
    /\ c_pc = "idle" /\ c_file = NoFile /\ c_kind = "none" /\ c_src = "none"
    /\ c_type = "none" /\ c_limit = 0 /\ c_consumer = "none"
    /\ c_out = <<>> /\ c_err = NoError /\ c_chunks = 0

CoreInit ==
    /\ c_pc = "input"
    /\ \E i \in CoreInputs :
          /\ c_file = i.file /\ c_type = i.type
          /\ c_limit = i.limit /\ c_consumer = i.consumer
    /\ c_kind = "none" /\ c_src = "none"
    /\ c_out = <<>> /\ c_err = NoError /\ c_chunks = 0

\* kind = detect_kind(path)
CoreDetect ==
    /\ c_pc = "input"
    /\ LET k == detect_kind(c_file)
       IN  IF k \in Families
           THEN c_kind' = k /\ c_pc' = "ready" /\ c_err' = NoError
           ELSE c_kind' = "none" /\ c_pc' = "detect_raised" /\ c_err' = k
    /\ c_src' = "detect_kind"
    /\ UNCHANGED <<c_file, c_type, c_limit, c_consumer, c_out, c_chunks,
                   convVars, shellVars>>

\* the caller of extract names the family itself
CoreSupply(k) ==
    /\ c_pc = "input"
    /\ c_kind' = k /\ c_src' = "caller" /\ c_pc' = "ready"
    /\ UNCHANGED <<c_file, c_type, c_limit, c_consumer, c_out, c_err, c_chunks,
                   convVars, shellVars>>

\* generate() writes the header before it touches query_rows (main.py:311-318)
CoreCsvHeader ==
    /\ c_pc = "ready" /\ c_consumer = "csv" /\ c_chunks = 0
    /\ c_chunks' = 1
    /\ UNCHANGED <<c_pc, c_file, c_kind, c_src, c_type, c_limit, c_consumer,
                   c_out, c_err, convVars, shellVars>>

\* one next() on the generator: the first one connects, executes and fetches
CoreNext ==
    /\ c_pc \in {"ready", "yielded"}
    /\ c_consumer = "csv" => c_chunks >= 1
    /\ LET q == query_rows(c_file, c_kind, c_type, c_limit)
       IN  IF c_pc = "ready" /\ q.err # NoError
           THEN c_pc' = "raised" /\ c_err' = q.err /\ UNCHANGED <<c_out, c_chunks>>
           ELSE IF Len(c_out) < Len(q.recs)
           THEN /\ c_out' = Append(c_out, q.recs[Len(c_out) + 1])
                /\ c_pc' = "yielded"
                /\ c_chunks' = IF c_consumer = "csv" THEN c_chunks + 1 ELSE c_chunks
                /\ UNCHANGED c_err
           ELSE c_pc' = "exhausted" /\ UNCHANGED <<c_out, c_err, c_chunks>>
    /\ UNCHANGED <<c_file, c_kind, c_src, c_type, c_limit, c_consumer,
                   convVars, shellVars>>

\* the client of the CSV response goes away: the generator is closed
CoreAbandon ==
    /\ c_pc = "yielded" /\ c_consumer = "csv"
    /\ c_pc' = "closed"
    /\ UNCHANGED <<c_file, c_kind, c_src, c_type, c_limit, c_consumer, c_out,
                   c_err, c_chunks, convVars, shellVars>>

CoreNextStep ==
    \/ CoreDetect
    \/ \E k \in Families : CoreSupply(k)
    \/ CoreCsvHeader
    \/ CoreNext
    \/ CoreAbandon

----------------------------------------------------------------------------
(* The shell: upload (main.py:288-303) and export_csv (main.py:305-329)    *)

Digits == <<"0", "1", "2", "3", "4", "5", "6", "7", "8", "9">>

IsDigit(c) == \E i \in 1..10 : Digits[i] = c

DigitVal(c) == (CHOOSE i \in 1..10 : Digits[i] = c) - 1

RECURSIVE DigitsVal(_)
DigitsVal(str) ==
    IF str = <<>> THEN 0
    ELSE DigitsVal(SubSeq(str, 1, Len(str) - 1)) * 10 + DigitVal(str[Len(str)])

\* int(str) on a string given as its characters: an optional sign, then
\* digits; anything else raises ValueError (ok = FALSE)
ParseInt(str) ==
    LET neg  == str # <<>> /\ Head(str) = "-"
        body == IF neg THEN Tail(str) ELSE str
    IN  IF body = <<>> \/ \E i \in 1..Len(body) : ~IsDigit(body[i])
        THEN [ok |-> FALSE, v |-> 0]
        ELSE [ok |-> TRUE, v |-> IF neg THEN 0 - DigitsVal(body) ELSE DigitsVal(body)]

Min(a, b) == IF a < b THEN a ELSE b
Max(a, b) == IF a > b THEN a ELSE b

\* the limit parsed but not clamped
ClampLimit_unclamped(field) ==
    LET p == ParseInt(IF field = Absent THEN <<"5", "0", "0", "0">> ELSE field)
    IN  IF p.ok THEN p.v ELSE 5000

\* main.py:292-294
ClampLimit(field) ==
    LET p == ParseInt(IF field = Absent THEN <<"5", "0", "0", "0">> ELSE field)
    IN  IF p.ok THEN Max(1, Min(100000, p.v)) ELSE 5000

\* the "limit" fields the model posts
LimitFields ==
    {Absent, <<"a", "b", "c">>, <<"-", "5">>,
     <<"1", "0", "0", "0", "0", "0">>, <<"1", "0", "0", "0", "0", "1">>}

\* the "table" fields the model posts
TableFields == TableTypes \cup {Absent}

\* main.py:291
TableOf(field) == IF field = Absent THEN "urls" ELSE field

\* what lines 291-294 make of the posted fields
PostedTables == {TableOf(tf) : tf \in TableFields}
PostedLimits == {ClampLimit(lf) : lf \in LimitFields}

\* the files the model uploads
ShellFiles ==
    {File(TRUE, ChromiumTables, TRUE, Rows(2, 3)),
     File(TRUE, {"downloads"}, TRUE, Rows(2, 1)),
     File(TRUE, FirefoxTables, TRUE, Rows(2, 5)),
     File(TRUE, {"foo", "bar"}, TRUE, <<>>),
     File(FALSE, {}, FALSE, <<>>)}

Call(by, tok, path, kind, table_type, limit) ==
    [by |-> by, token |-> tok, path |-> path, kind |-> kind,
     table_type |-> table_type, limit |-> limit]

\* upload without a file: flash and redirect (main.py:295)
UploadNoFile ==
    /\ resp' = "redirect"
    /\ UNCHANGED <<disk, FILE_INDEX, issued, detects, lastcall, stream,
                   unclosed, coreVars, convVars>>

\* upload of a file, with table_type and limit as lines 291-294 leave them
\* (PostedTables, PostedLimits).  left: is one of the connections the request opened
\* still open when the request ends?  "with sqlite3.connect(..) as con"
\* commits or rolls back on exit and does not close; the connection is closed
\* when the object is finalized, which happens at once or later
upload(f, table_type, limit, left) ==
    /\ issued < MaxUploads
    /\ LET token      == issued + 1
           path       == token
           kind       == detect_kind(f)
           q          == query_rows(f, kind, table_type, limit)
       IN  /\ issued' = token
           /\ disk' = [disk EXCEPT ![path] = f]
           /\ detects' = [detects EXCEPT ![path] = @ + 1]
           /\ IF kind \notin Families THEN
                  /\ resp' = "500"
                  /\ UNCHANGED <<FILE_INDEX, lastcall>>
              ELSE
                  /\ lastcall' = Call("upload", token, path, kind, table_type, limit)
                  /\ IF q.err # NoError THEN
                         /\ resp' = "500"
                         /\ UNCHANGED FILE_INDEX
                     ELSE
                         /\ FILE_INDEX' = [FILE_INDEX EXCEPT ![token] =
                               [path |-> path, kind |-> kind, table_type |-> table_type]]
                         /\ resp' = "200"
           /\ unclosed' = (unclosed \/ left)
    /\ UNCHANGED <<stream, coreVars, convVars>>

\* an export that ignores the stored record type
ExportMeta_urls(token) ==
    IF FILE_INDEX[token] = NoMeta THEN NoMeta
    ELSE [FILE_INDEX[token] EXCEPT !.table_type = "urls"]

\* main.py:307-309
ExportMeta(token) == FILE_INDEX[token]

\* export_csv: look the token up and hand generate() to the response; the
\* body of generate() runs when the server iterates the response
export_csv(token) ==
    /\ stream = NoStream
    /\ LET meta == ExportMeta(token)
       IN  IF meta = NoMeta
           THEN UNCHANGED stream                                  \* abort(404)
           ELSE stream' = [token |-> token, path |-> meta.path, kind |-> meta.kind,
                           table_type |-> meta.table_type,
                           pc |-> "created", sent |-> 0, chunks |-> 0]
    /\ UNCHANGED <<disk, FILE_INDEX, issued, detects, lastcall, resp, unclosed,
                   coreVars, convVars>>

\* generate(): the header row (main.py:311-318)
StreamHeader ==
    /\ stream # NoStream /\ stream.pc = "created"
    /\ stream' = [stream EXCEPT !.pc = "header", !.chunks = 1]
    /\ UNCHANGED <<disk, FILE_INDEX, issued, detects, lastcall, resp,
                   unclosed, coreVars, convVars>>

\* generate(): one more chunk is pulled (main.py:319-327).  The first pull
\* calls query_rows and starts it; a pull that ends the generator (exception
\* or exhaustion) leaves the connection to its finalizer
StreamPull(left) ==
    /\ stream # NoStream /\ stream.pc \in {"header", "rows"}
    /\ LET q == query_rows(disk[stream.path], stream.kind, stream.table_type,
                           ExportLimit)
       IN  /\ lastcall' = IF stream.pc = "header"
                          THEN Call("export", stream.token, stream.path, stream.kind,
                                    stream.table_type, ExportLimit)
                          ELSE lastcall
           /\ IF q.err = NoError /\ stream.sent < Len(q.recs)
              THEN /\ left = FALSE
                   /\ stream' = [stream EXCEPT !.pc = "rows", !.sent = @ + 1,
                                               !.chunks = @ + 1]
                   /\ UNCHANGED unclosed
              ELSE /\ stream' = NoStream
                   /\ unclosed' = (unclosed \/ left)
    /\ UNCHANGED <<disk, FILE_INDEX, issued, detects, resp,
                   coreVars, convVars>>

\* the client goes away: the server closes the response iterator
StreamAbandon(left) ==
    /\ stream # NoStream
    /\ left => stream.pc = "rows"              \* query_rows holds a connection
    /\ stream' = NoStream
    /\ unclosed' = (unclosed \/ left)
    /\ UNCHANGED <<disk, FILE_INDEX, issued, detects, lastcall, resp,
                   coreVars, convVars>>

\* the finalizers close the connections nothing refers to any more
Finalize ==
    /\ unclosed
    /\ unclosed' = FALSE
    /\ UNCHANGED <<disk, FILE_INDEX, issued, detects, lastcall, resp,
                   stream, coreVars, convVars>>

Init == ShellIdle /\ CoreIdle /\ ConvIdle

Next ==
    \/ UploadNoFile
    \/ \E f \in ShellFiles, table_type \in PostedTables, limit \in PostedLimits,
          left \in BOOLEAN :
          upload(f, table_type, limit, left)
    \/ \E token \in Tokens : export_csv(token)
    \/ StreamHeader
    \/ \E left \in BOOLEAN : StreamPull(left)
    \/ \E left \in BOOLEAN : StreamAbandon(left)
    \/ Finalize

Spec == Init /\ [][Next]_vars

CoreStart == CoreInit /\ ConvIdle /\ ShellIdle

CoreSpec == CoreStart /\ [][CoreNextStep]_vars

ConvNext == ConvSql \/ ConvPy

ConvStart == ConvInit /\ CoreIdle /\ ShellIdle

ConvSpec == ConvStart /\ [][ConvNext]_vars

----------------------------------------------------------------------------
(* Claims                                                                  *)

Started == c_pc \in {"yielded", "exhausted", "raised", "closed"}

MissingTable == ~(QueryTables(c_kind, c_type) \subseteq Names(c_file))

\* the spec's classification list, in its order
DetectRules ==
    << [need |-> {"urls", "visits"},                  family |-> "chromium"],
       [need |-> {"moz_places", "moz_historyvisits"}, family |-> "firefox"],
       [need |-> {"history_items", "history_visits"}, family |-> "safari"],
       [need |-> {"downloads"},                       family |-> "chromium"] >>

FirstMatch(names) ==
    LET hits == {i \in 1..Len(DetectRules) : DetectRules[i].need \subseteq names}
    IN  IF hits = {} THEN "unknown"
        ELSE DetectRules[CHOOSE i \in hits : \A j \in hits : i <= j].family

\* C1: for every set of lower-cased table names detect_kind returns the first
\* match of the ordered list (urls+visits, moz_places+moz_historyvisits,
\* history_items+history_visits, downloads, else unknown); the five sets the
\* spec names classify as it says.
C1_DetectFirstMatch ==
    (c_src = "detect_kind" /\ c_pc # "detect_raised") =>
        /\ c_kind = FirstMatch(Names(c_file))
        /\ Names(c_file) = {"downloads"} => c_kind = "chromium"
        /\ Names(c_file) = {"urls", "visits", "downloads"} => c_kind = "chromium"
        /\ Names(c_file) = {"moz_places", "moz_historyvisits"} => c_kind = "firefox"
        /\ Names(c_file) = {"history_items", "history_visits"} => c_kind = "safari"
        /\ Names(c_file) = {"foo", "bar"} => c_kind = "unknown"

\* a Firefox file that also has a downloads table, spelled in capitals
C1_Witness ==
    /\ c_src = "detect_kind" /\ c_kind = "firefox"
    /\ "Downloads" \in c_file.tables

\* C2: one call of query_rows with a limit >= 1 yields at most limit records.
C2_AtMostLimit ==
    c_limit >= 1 => Len(c_out) <= c_limit

\* the table has more rows than the limit and the call ran to its end
C2_Witness ==
    /\ c_pc = "exhausted" /\ c_limit = 2
    /\ Len(c_file.rows) > c_limit /\ Len(c_out) = c_limit

\* C3 (as stated): every query_rows call, from upload or from the CSV export,
\* receives a limit in [1, 100000].
C3_EveryLimitClamped ==
    lastcall.by # "none" => (lastcall.limit >= 1 /\ lastcall.limit <= 100000)

\* C3 (amended): a call made by upload receives a limit in [1, 100000]; the
\* call made by the CSV export receives the fixed limit 1000000.
C3_LimitByCaller ==
    /\ lastcall.by = "upload" => (lastcall.limit >= 1 /\ lastcall.limit <= 100000)
    /\ lastcall.by = "export" => lastcall.limit = ExportLimit

\* an export is streaming rows while an upload has just passed a clamped limit
C3_Witness ==
    /\ stream.pc = "rows"
    /\ lastcall.by = "upload" /\ lastcall.limit = 100000

TimestampOk(x) == x.t = "empty" \/ (x.t = "str" /\ x.fmt \in {"iso", "sql"})

\* C4: in every emitted record each timestamp field (utc; start_time_utc,
\* end_time_utc, last_access_time_utc) is a converted date-time string or the
\* empty string, never null, and an undecodable raw value neither raises nor
\* stops the records after it.
C4_TimestampsConvertedOrEmpty ==
    /\ \A i \in 1..Len(c_out) :
          IF c_type = "urls" THEN TimestampOk(c_out[i].utc)
          ELSE /\ TimestampOk(c_out[i].start_time_utc)
               /\ TimestampOk(c_out[i].end_time_utc)
               /\ TimestampOk(c_out[i].last_access_time_utc)
    /\ (c_pc = "raised" /\ c_file.readable /\ c_file.columns) => MissingTable
    /\ (c_pc = "exhausted" /\ RunsQuery(c_kind, c_type) /\ c_limit >= Len(c_file.rows))
          => Len(c_out) = Len(c_file.rows)

\* C5: no connection stays open once the call that opened it has ended.
C5_ConnectionsClosed ==
    ~unclosed

\* C6: when a table the query of (family, record type) needs is missing, the
\* extraction fails and the consumer has received no record of it; the CSV
\* consumer has produced its header and nothing else.
C6_MissingTableNoRecords ==
    /\ (Started /\ RunsQuery(c_kind, c_type) /\ MissingTable) =>
          /\ c_pc = "raised" /\ c_err # NoError
          /\ c_out = <<>>
          /\ c_consumer = "csv" => c_chunks = 1
    /\ c_pc = "raised" => c_out = <<>>

\* the CSV path hits a missing table after its header
C6_Witness ==
    /\ c_pc = "raised" /\ c_err = NoSuchTable
    /\ c_consumer = "csv" /\ c_chunks = 1

StoredAtUpload(token, path, kind, table_type) ==
    /\ token \in Tokens
    /\ FILE_INDEX[token] = [path |-> path, kind |-> kind, table_type |-> table_type]

\* C7: detection runs exactly once per uploaded file, during its upload; an
\* export calls the extractor with the path, family and record type stored
\* for its token, the stored entry never changes, and no export detects.
C7_DetectOncePerFile ==
    /\ [](\A t \in Tokens : detects[t] = IF t <= issued THEN 1 ELSE 0)
    /\ [](\A t \in Tokens : FILE_INDEX[t] # NoMeta =>
             /\ t <= issued
             /\ FILE_INDEX[t].path = t
             /\ FILE_INDEX[t].kind = detect_kind(disk[t]))
    /\ [](lastcall.by = "export" =>
             StoredAtUpload(lastcall.token, lastcall.path, lastcall.kind,
                            lastcall.table_type))
    /\ [](stream # NoStream =>
             StoredAtUpload(stream.token, stream.path, stream.kind, stream.table_type))
    /\ [][\A t \in Tokens :
             /\ FILE_INDEX[t] # NoMeta => FILE_INDEX'[t] = FILE_INDEX[t]
             /\ detects'[t] # detects[t] => (issued' = t /\ issued = t - 1)]_vars

\* the first file's downloads are exported, with the export limit, after a
\* second file was uploaded
C7_Witness ==
    /\ issued = 2 /\ detects[1] = 1
    /\ lastcall.by = "export" /\ lastcall.token = 1
    /\ lastcall.table_type = "downloads" /\ lastcall.limit = ExportLimit

DownloadsOfOtherFamily ==
    (Started /\ c_type = "downloads" /\ c_kind \in {"firefox", "safari"}) =>
        (c_pc = "exhausted" /\ c_out = <<>> /\ c_err = NoError)

\* C8 (as stated): Download records of family Firefox or Safari are an empty
\* sequence and no error; only an unreadable file or a missing expected
\* table makes an extraction fail.
C8_OnlyUnreadableOrMissing ==
    /\ DownloadsOfOtherFamily
    /\ c_pc = "raised" => (~c_file.readable \/ MissingTable)

\* C8 (amended): Download records of family Firefox or Safari are an empty
\* sequence and no error; only an unreadable file or a missing or malformed
\* expected table (one without a column the query names) makes an
\* extraction fail.
C8_EmptyForOtherFamilies ==
    /\ DownloadsOfOtherFamily
    /\ c_pc = "raised" => (~c_file.readable \/ MissingTable \/ ~c_file.columns)

\* Download records asked of a file that is not even a database
C8_Witness ==
    /\ c_pc = "exhausted" /\ c_type = "downloads" /\ c_kind = "safari"
    /\ ~c_file.readable /\ c_file.rows # <<>>

\* C9: for every integer v the whole-second instant the downloads query
\* computes equals the instant chrome_to_utc gives for v, taken down to whole
\* seconds.
C9_SameInstant ==
    (v_pc = {"sql", "py"} /\ v_sql.t = "str" /\ v_py.t = "str") =>
        (v_sql.ord = v_py.ord /\ v_sql.s = v_py.s)

\* C10: when detect_kind names a family, the VisitedUrl query of that family
\* finds its tables, and for Chromium the Download query finds downloads.
C10_DetectedTablesExist ==
    (/\ c_src = "detect_kind" /\ Started
     /\ \/ c_type = "urls" /\ c_kind \in {"chromium", "firefox", "safari"}
        \/ c_type = "downloads" /\ c_kind = "chromium")
    => c_err # NoSuchTable

====
